---- MODULE Spec2Model ----
(***************************************************************************)
(* Slide2Video: the concurrent caption / polish / narration stages, the    *)
(* pipeline that sequences them, the subtitle chunking functions and the   *)
(* subtitle timeline of the assembly stage.                                *)
(*                                                                         *)
(* Text is a sequence of one-character strings.  A file path is a record   *)
(* [dir, name]; name is the file name as a sequence of characters.  The    *)
(* file system fs is a function from the paths present to their contents.  *)
(***************************************************************************)
EXTENDS Integers, Sequences, FiniteSets, TLC

\* ------------------------------------------------------------------ bounds
MaxSlides == 3
MaxThreads == 2
LongDeck == 100
LongDeckTail == 2

\* ------------------------------------------------------- text and file names
IsSpace(c) == c \in {" ", "\n", "\t"}

RECURSIVE LStrip(_)
LStrip(s) ==
    IF s = <<>> THEN s
    ELSE IF IsSpace(Head(s)) THEN LStrip(Tail(s)) ELSE s

RECURSIVE RStrip(_)
RStrip(s) ==
    IF s = <<>> THEN s
    ELSE IF IsSpace(s[Len(s)]) THEN RStrip(SubSeq(s, 1, Len(s) - 1)) ELSE s

\* str.strip()
Strip(s) == RStrip(LStrip(s))

DigitChars == <<"0", "1", "2", "3", "4", "5", "6", "7", "8", "9">>

IsDigit(c) == \E d \in 1..10 : DigitChars[d] = c

DigitValue(c) == (CHOOSE d \in 1..10 : DigitChars[d] = c) - 1

\* code points of the characters that file names are made of
CodePoint(c) ==
    IF c = "." THEN 46
    ELSE IF c = "/" THEN 47
    ELSE IF IsDigit(c) THEN 48 + DigitValue(c)
    ELSE IF c = "_" THEN 95
    ELSE 97 + (CHOOSE k \in 0..25 :
                 <<"a","b","c","d","e","f","g","h","i","j","k","l","m",
                   "n","o","p","q","r","s","t","u","v","w","x","y","z">>[k + 1] = c)

RECURSIVE Decimal(_)
Decimal(n) ==
    IF n < 10 THEN <<DigitChars[n + 1]>>
    ELSE Decimal(n \div 10) \o <<DigitChars[(n % 10) + 1]>>

\* f"{n:02d}": decimal digits, zero-padded to a width of at least 2
Format02d(n) == IF n < 10 THEN <<"0">> \o Decimal(n) ELSE Decimal(n)

SlidePrefix == <<"s", "l", "i", "d", "e", "_">>
PolishedPrefix == <<"p", "o", "l", "i", "s", "h", "e", "d", "_">>
PngExt == <<".", "p", "n", "g">>
TxtExt == <<".", "t", "x", "t">>
WavExt == <<".", "w", "a", "v">>

\* index of the last "." of a name, 0 when there is none
RECURSIVE LastDot(_)
LastDot(name) ==
    IF name = <<>> THEN 0
    ELSE IF name[Len(name)] = "." THEN Len(name)
    ELSE LastDot(SubSeq(name, 1, Len(name) - 1))

\* Path(p).stem
Stem(name) ==
    IF LastDot(name) <= 1 THEN name ELSE SubSeq(name, 1, LastDot(name) - 1)

\* position of the first occurrence of "slide_" followed by a digit, 0 if none
FindSlidePrefix(name) ==
    LET Hits == {i \in 1..Len(name) :
                    /\ i + Len(SlidePrefix) <= Len(name)
                    /\ SubSeq(name, i, i + Len(SlidePrefix) - 1) = SlidePrefix
                    /\ IsDigit(name[i + Len(SlidePrefix)])}
    IN IF Hits = {} THEN 0 ELSE CHOOSE i \in Hits : \A j \in Hits : i <= j

RECURSIVE ParseDigits(_, _)
ParseDigits(s, acc) ==
    IF s = <<>> \/ ~IsDigit(Head(s)) THEN acc
    ELSE ParseDigits(Tail(s), acc * 10 + DigitValue(Head(s)))

\* re.search(r'slide_(\d+)', filename) -> int(match.group(1))
ExtractSlideNumber(name) ==
    LET at == FindSlidePrefix(name)
    IN ParseDigits(SubSeq(name, at + Len(SlidePrefix), Len(name)), 0)

\* lexicographic order of Python str by code point
RECURSIVE StrLess(_, _)
StrLess(a, b) ==
    IF b = <<>> THEN FALSE
    ELSE IF a = <<>> THEN TRUE
    ELSE IF Head(a) = Head(b) THEN StrLess(Tail(a), Tail(b))
    ELSE CodePoint(Head(a)) < CodePoint(Head(b))

\* str(path) of a path: the directory, "/", the file name
PathStr(p) == p.dir \o <<"/">> \o p.name

\* list.sort() of a list of path strings: the stable ascending permutation.
\* The element at position i goes to the place given by the number of
\* elements ordered before it (smaller, or equal and earlier in the list).
SortPaths(paths) ==
    LET n == Len(paths)
        strs == [i \in 1..n |-> PathStr(paths[i])]
        Before(j, i) ==
            \/ StrLess(strs[j], strs[i])
            \/ /\ ~StrLess(strs[i], strs[j])
               /\ j < i
        Place(i) == 1 + Cardinality({j \in 1..n : Before(j, i)})
        placed == {<<Place(i), i>> : i \in 1..n}
    IN [r \in 1..n |-> paths[(CHOOSE pr \in placed : pr[1] = r)[2]]]

\* ------------------------------------------------------------- directories
ImagesDir == <<"i">>
TranscriptsDir == <<"t">>
PolishedDir == <<"p">>
AudioDir == <<"a">>

\* pdf_processor: output_dir / f"slide_{page_num + 1:02d}.png"
ImagePath(k) == [dir |-> ImagesDir, name |-> SlidePrefix \o Format02d(k) \o PngExt]

\* transcript_processor: output_dir / f"{basename}.txt"
TranscriptPath(imagePath) ==
    [dir |-> TranscriptsDir, name |-> Stem(imagePath.name) \o TxtExt]

\* transcript_polisher: output_dir / f"polished_slide_{slide_number:02d}.txt"
PolishedPath(k) ==
    [dir |-> PolishedDir, name |-> PolishedPrefix \o SlidePrefix \o Format02d(k) \o TxtExt]

\* audio_processor: output_dir / f"{basename}.{self.audio_format}"
AudioPath(transcriptPath) ==
    [dir |-> AudioDir, name |-> Stem(transcriptPath.name) \o WavExt]

WriteFileAppending(f, path, content) ==
    [x \in DOMAIN f \cup {path} |->
        IF x = path THEN (IF path \in DOMAIN f THEN f[path] \o content ELSE content)
        ELSE f[x]]

WriteFile(f, path, content) ==
    [x \in DOMAIN f \cup {path} |-> IF x = path THEN content ELSE f[x]]

\* ------------------------------------------------------ subtitle chunking
\* min_chunk_chars of _split_text_into_subtitle_chunks
MinChunkChars == 15

\* the characters of s at the positions lo..hi where keep is TRUE, in order
RECURSIVE SelectRange(_, _, _, _)
SelectRange(s, keep, lo, hi) ==
    IF lo > hi THEN <<>>
    ELSE IF lo = hi THEN (IF keep[lo] THEN <<s[lo]>> ELSE <<>>)
    ELSE SelectRange(s, keep, lo, (lo + hi) \div 2)
           \o SelectRange(s, keep, ((lo + hi) \div 2) + 1, hi)

\* re.sub(r'\s+', ' ', text.strip()): every run of whitespace becomes one space
NormalizeText(text) ==
    LET t == Strip(text)
        spaced == [i \in 1..Len(t) |-> IF IsSpace(t[i]) THEN " " ELSE t[i]]
        keep == [i \in 1..Len(t) |-> ~IsSpace(t[i]) \/ ~IsSpace(t[i - 1])]
    IN SelectRange(spaced, keep, 1, Len(t))

\* str.split(): the maximal runs of non-whitespace characters
SplitWords(s) ==
    LET n == Len(s)
        starts == {i \in 1..n : ~IsSpace(s[i]) /\ (i = 1 \/ IsSpace(s[i - 1]))}
        ends == {i \in 1..n : ~IsSpace(s[i]) /\ (i = n \/ IsSpace(s[i + 1]))}
        Nth(S, r) == CHOOSE x \in S : Cardinality({y \in S : y < x}) = r - 1
    IN [r \in 1..Cardinality(starts) |-> SubSeq(s, Nth(starts, r), Nth(ends, r))]

\* f"{a} {b}"
JoinPair(a, b) == a \o <<" ">> \o b

\* sep.join(parts)
RECURSIVE JoinAll(_, _)
JoinAll(parts, sep) ==
    IF parts = <<>> THEN <<>>
    ELSE IF Len(parts) = 1 THEN parts[1]
    ELSE parts[1] \o sep \o JoinAll(Tail(parts), sep)

\* the loop that accumulates words into pieces of at most max characters
\* (lines 145-159 for chunks, lines 220-233 for display lines): done are the
\* closed pieces, current the open one
RECURSIVE Accumulate(_, _, _, _)
Accumulate(words, done, current, max) ==
    IF words = <<>> THEN (IF current # <<>> THEN Append(done, current) ELSE done)
    ELSE LET test == Strip(JoinPair(current, Head(words)))
         IN IF Len(test) <= max
            THEN Accumulate(Tail(words), done, test, max)
            ELSE Accumulate(Tail(words),
                            IF current # <<>> THEN Append(done, current) ELSE done,
                            Head(words), max)

\* mutant of InitialChunks: a chunk is closed after every word
InitialChunksOneWord(words, maxCharsPerLine, maxLines) ==
    words

\* mutant of InitialChunks: the cap of one line is used as the cap of a chunk
InitialChunksPerLine(words, maxCharsPerLine, maxLines) ==
    Accumulate(words, <<>>, <<>>, maxCharsPerLine)

\* _split_text_into_subtitle_chunks, greedy accumulation under
\* max_chunk_chars = max_chars_per_line * max_lines
InitialChunks(words, maxCharsPerLine, maxLines) ==
    Accumulate(words, <<>>, <<>>, maxCharsPerLine * maxLines)

\* the while loop of _merge_short_chunks from index i on
RECURSIVE MergeFrom(_, _, _, _, _)
MergeFrom(chunks, i, merged, maxChars, minChars) ==
    IF i > Len(chunks) THEN merged
    ELSE IF /\ Len(chunks[i]) < minChars
            /\ i + 1 <= Len(chunks)
            /\ Len(JoinPair(chunks[i], chunks[i + 1])) <= maxChars
    THEN MergeFrom(chunks, i + 2, Append(merged, JoinPair(chunks[i], chunks[i + 1])),
                   maxChars, minChars)
    ELSE IF /\ Len(chunks[i]) < minChars
            /\ merged # <<>>
            /\ Len(JoinPair(merged[Len(merged)], chunks[i])) <= maxChars
    THEN MergeFrom(chunks, i + 1,
                   [merged EXCEPT ![Len(merged)] = JoinPair(@, chunks[i])],
                   maxChars, minChars)
    ELSE MergeFrom(chunks, i + 1, Append(merged, chunks[i]), maxChars, minChars)

\* mutant of MergeShortChunks: a short chunk is joined to the next one without
\* the check that the joined chunk fits
MergeShortChunksUnchecked(chunks, maxChars, minChars) ==
    IF Len(chunks) <= 1 THEN chunks
    ELSE MergeFrom(chunks, 1, <<>>, maxChars + Len(JoinAll(chunks, <<" ">>)), minChars)

\* VideoProcessor._merge_short_chunks
MergeShortChunks(chunks, maxChars, minChars) ==
    IF Len(chunks) <= 1 THEN chunks
    ELSE MergeFrom(chunks, 1, <<>>, maxChars, minChars)

\* mutant of BalancedSplit: the words are split at the midpoint, without the
\* search for a better split point
BalancedSplitAtMidpoint(allWords, maxCharsPerLine) ==
    LET n == Len(allWords)
        midPoint == n \div 2
    IN JoinAll(SubSeq(allWords, 1, midPoint), <<" ">>) \o <<"\n">>
       \o JoinAll(SubSeq(allWords, midPoint + 1, n), <<" ">>)

\* _format_chunk_lines, lines 240-259: the split into two balanced lines
BalancedSplit(allWords, maxCharsPerLine) ==
    LET n == Len(allWords)
        midPoint == n \div 2
        lo == IF midPoint - 3 > 1 THEN midPoint - 3 ELSE 1
        hi == IF midPoint + 4 < n THEN midPoint + 4 ELSE n
        Line1(sp) == JoinAll(SubSeq(allWords, 1, sp), <<" ">>)
        Line2(sp) == JoinAll(SubSeq(allWords, sp + 1, n), <<" ">>)
        Diff(sp) == IF Len(Line1(sp)) >= Len(Line2(sp))
                    THEN Len(Line1(sp)) - Len(Line2(sp))
                    ELSE Len(Line2(sp)) - Len(Line1(sp))
        fitting == {sp \in lo..(hi - 1) :
                       /\ Len(Line1(sp)) <= maxCharsPerLine
                       /\ Len(Line2(sp)) <= maxCharsPerLine}
        bestSplit == IF fitting = {} THEN midPoint
                     ELSE CHOOSE sp \in fitting :
                            \A t \in fitting :
                                Diff(sp) < Diff(t) \/ (Diff(sp) = Diff(t) /\ sp <= t)
    IN Line1(bestSplit) \o <<"\n">> \o Line2(bestSplit)

\* mutant of FormatChunkLines: more than two lines are cut down to the first two
FormatChunkLinesTruncating(chunk, maxCharsPerLine) ==
    IF Len(chunk) <= maxCharsPerLine THEN chunk
    ELSE LET lines == Accumulate(SplitWords(chunk), <<>>, <<>>, maxCharsPerLine)
         IN IF Len(lines) <= 2 THEN JoinAll(lines, <<"\n">>)
            ELSE JoinAll(SubSeq(lines, 1, 2), <<"\n">>)

\* mutant of FormatChunkLines: the natural lines are used however many they are
FormatChunkLinesNatural(chunk, maxCharsPerLine) ==
    IF Len(chunk) <= maxCharsPerLine THEN chunk
    ELSE JoinAll(Accumulate(SplitWords(chunk), <<>>, <<>>, maxCharsPerLine), <<"\n">>)

\* VideoProcessor._format_chunk_lines
FormatChunkLines(chunk, maxCharsPerLine) ==
    IF Len(chunk) <= maxCharsPerLine THEN chunk
    ELSE LET lines == Accumulate(SplitWords(chunk), <<>>, <<>>, maxCharsPerLine)
         IN IF Len(lines) <= 2 THEN JoinAll(lines, <<"\n">>)
            ELSE BalancedSplit(SplitWords(chunk), maxCharsPerLine)

\* _split_text_into_subtitle_chunks: the chunks after the greedy accumulation
GreedyChunksOf(text, maxCharsPerLine, maxLines) ==
    IF Strip(text) = <<>> THEN <<>>
    ELSE InitialChunks(SplitWords(NormalizeText(text)), maxCharsPerLine, maxLines)

\* _split_text_into_subtitle_chunks: the chunks after _merge_short_chunks
MergedChunksOf(text, maxCharsPerLine, maxLines) ==
    IF Strip(text) = <<>> THEN <<>>
    ELSE MergeShortChunks(GreedyChunksOf(text, maxCharsPerLine, maxLines),
                          maxCharsPerLine * maxLines, MinChunkChars)

\* VideoProcessor._split_text_into_subtitle_chunks
SplitTextIntoSubtitleChunks(text, maxCharsPerLine, maxLines) ==
    LET merged == MergedChunksOf(text, maxCharsPerLine, maxLines)
    IN [c \in 1..Len(merged) |-> FormatChunkLines(merged[c], maxCharsPerLine)]

\* --------------------------------------------------------------- variables
VARIABLES
    fs,                   \* the files on disk: path -> content
    pc,                   \* run_full_pipeline: the step it is at
    numPages,             \* pages of the input PDF
    enablePolishing,      \* config.enable_polishing
    threadCount,          \* config.thread_count (max_workers of every pool)
    imagePaths,           \* run_full_pipeline: image_paths
    transcriptPaths,      \* run_full_pipeline: transcript_paths
    finalTranscriptPaths, \* run_full_pipeline: final_transcript_paths
    audioPaths,           \* run_full_pipeline: audio_paths
    videoCalls,           \* arguments of the create_video calls made so far
    stage,                \* the concurrent stage that is (or was last) running
    stagePc,              \* "idle", "collecting", "unwinding", "returned", "raised"
    items,                \* the submitted work items, in submission order
    task,                 \* state of the future of every item
    collected,            \* the list the collection loop appends to
    result,               \* the list the stage call returned, empty before
    raisedBy,             \* item whose exception the stage call re-raised, 0 if none
    allOriginal,          \* polish: all_original_content, slide number -> raw text
    prompts,              \* item -> prompt handed to the rewriter, once built
    wrote,                \* item -> content its transform wrote, once written
    rewriterFailed,       \* polish: items whose rewriter call raised
    clientOf,             \* item -> external client handle its worker uses, once started
    firstRun,             \* what an earlier call of the same stage on the same inputs did
    chunkPc,              \* _split_text_into_subtitle_chunks: "idle", "called", "returned"
    argText,              \* its argument text
    argMaxCharsPerLine,   \* its argument max_chars_per_line
    argMaxLines,          \* its argument max_lines
    initialChunks,        \* its chunks after the greedy accumulation
    mergedChunks,         \* its chunks after _merge_short_chunks
    formattedChunks,      \* the list it returned
    videoPc,              \* create_video_with_subtitles: "idle", "slides", "video", "srt", "returned", "raised"
    imageCount,           \* len(image_paths)
    audioCount,           \* len(audio_paths)
    transcriptCount,      \* len(transcript_paths)
    transitionBreak,      \* self.transition_break, in ticks
    slidesDone,           \* iterations of the slide loop completed
    currentTime,          \* current_time, in ticks
    subtitleIndex,        \* subtitle_index
    clips,                \* total duration of every clip appended to clips
    srtEntries,           \* srt_entries
    audioDurations,       \* audio_duration of every slide processed
    slideStarts,          \* current_time at the start of every slide processed
    entrySlide,           \* the slide every entry of srt_entries came from
    written,              \* the output files written: "mp4", "srt"
    mainPc,               \* pdf2video.main: "idle", "input", "config", "pipeline", "step", "stage_started", "raised", "exit1"
    cliArgs,              \* the parsed command line: step, api_provider, whether the input file exists
    env,                  \* the environment main runs in: keys, settings, credentials
    constructed,          \* the processors _setup_processors has constructed, in order
    failedIn              \* the call the exception main caught came from, "" if none

pipeVars == <<pc, numPages, enablePolishing, threadCount, imagePaths,
              transcriptPaths, finalTranscriptPaths, audioPaths, videoCalls>>
stageVars == <<stage, stagePc, items, task, collected, result, raisedBy,
               allOriginal, prompts, wrote, rewriterFailed, clientOf, firstRun>>
chunkVars == <<chunkPc, argText, argMaxCharsPerLine, argMaxLines, initialChunks,
               mergedChunks, formattedChunks>>
timelineVars == <<videoPc, imageCount, audioCount, transcriptCount, transitionBreak,
                  slidesDone, currentTime, subtitleIndex, clips, srtEntries,
                  audioDurations, slideStarts, entrySlide, written>>
mainVars == <<mainPc, cliArgs, env, constructed, failedIn>>
vars == <<fs, pipeVars, stageVars, chunkVars, timelineVars, mainVars>>

\* main is not being followed
NoMainCall ==
    /\ mainPc = "idle"
    /\ cliArgs = <<>>
    /\ env = <<>>
    /\ constructed = <<>>
    /\ failedIn = ""

\* the stage has not been called before
NoFirstRun ==
    [stage |-> "none", files |-> <<>>, calls |-> <<>>, raised |-> {}, wrote |-> <<>>]

\* no call of _split_text_into_subtitle_chunks is being followed
NoChunkCall ==
    /\ chunkPc = "idle"
    /\ argText = <<>>
    /\ argMaxCharsPerLine = 1
    /\ argMaxLines = 1
    /\ initialChunks = <<>>
    /\ mergedChunks = <<>>
    /\ formattedChunks = <<>>

\* no call of create_video_with_subtitles is being followed
NoVideoCall ==
    /\ videoPc = "idle"
    /\ imageCount = 0
    /\ audioCount = 0
    /\ transcriptCount = 0
    /\ transitionBreak = 0
    /\ slidesDone = 0
    /\ currentTime = 0
    /\ subtitleIndex = 1
    /\ clips = <<>>
    /\ srtEntries = <<>>
    /\ audioDurations = <<>>
    /\ slideStarts = <<>>
    /\ entrySlide = <<>>
    /\ written = {}

\* ------------------------------------------------------ external collaborators
\* the character a slide's content is written with
SlideChar(k) == DigitChars[(k % 10) + 1]

\* texts the vision model may answer for the image of slide k, before the
\* provider strips them: a description ending in a newline or, for the first
\* slide (whose transcript is also the context of the second), a blank answer
ModelAnswers(k) ==
    IF k = 1 THEN {<<SlideChar(k), "\n">>, <<" ">>} ELSE {<<SlideChar(k), "\n">>}

\* texts the language model may answer for a polishing prompt
RewriterAnswers(prompt) == {<<"p">> \o prompt.current \o <<"\n">>}

\* ai_providers: generate_description returns response.text.strip()
GenerateDescription(answer) == Strip(answer)

\* audio_processor._synthesize_speech: audio bytes of a text
SynthesizeSpeech(text) == <<"~">> \o text

\* ---------------------------------------------------------- stage machinery
Items == 1..Len(items)

Running == {i \in Items : task[i] = "running"}
Unfinished == {i \in Items : task[i] \in {"pending", "running"}}

\* the artifact path of item i of the running stage
OutPath(i) ==
    CASE stage = "caption" -> TranscriptPath(items[i])
      [] stage = "polish" -> PolishedPath(items[i])
      [] stage = "narration" -> AudioPath(items[i])

\* ThreadPoolExecutor(max_workers=thread_count) with every item submitted
SubmitAll(name, its) ==
    /\ stage' = name
    /\ items' = its
    /\ task' = [i \in 1..Len(its) |-> "pending"]
    /\ collected' = <<>>
    /\ stagePc' = "collecting"
    /\ result' = <<>>
    /\ raisedBy' = 0
    /\ prompts' = <<>>
    /\ wrote' = <<>>
    /\ rewriterFailed' = {}
    /\ clientOf' = <<>>

\* the external client the worker of item i calls: the caption and the polish
\* transform build a provider of their own (_create_ai_provider) on every
\* call, _synthesize_speech calls self.tts_client, which AudioProcessor.__init__
\* creates once
ClientHandle(stageName, i) ==
    IF stageName = "narration" THEN <<"tts_client", 0>> ELSE <<"ai_provider", i>>

\* a pool thread takes the next queued item: the work queue is first-in
\* first-out and at most thread_count items run at a time
StartTask ==
    /\ stagePc \in {"collecting", "unwinding"}
    /\ Cardinality(Running) < threadCount
    /\ \E i \in Items :
        /\ task[i] = "pending"
        /\ \A j \in Items : task[j] = "pending" => i <= j
        /\ task' = [task EXCEPT ![i] = "running"]
        /\ clientOf' = [j \in DOMAIN clientOf \cup {i} |->
                          IF j = i THEN ClientHandle(stage, i) ELSE clientOf[j]]
    /\ UNCHANGED <<chunkVars, timelineVars, mainVars, firstRun, fs, pipeVars, stage, stagePc, items, collected, result,
                   raisedBy, allOriginal, prompts, wrote, rewriterFailed>>

\* mutant of TransformReturns: the path is returned before the file is written
TransformReturnsUnwritten(i, path, content) ==
    /\ fs' = fs
    /\ wrote' = [x \in DOMAIN wrote \cup {i} |-> IF x = i THEN content ELSE wrote[x]]
    /\ task' = [task EXCEPT ![i] = "ok"]

\* the transform of item i returns path after writing content to it
TransformReturns(i, path, content) ==
    /\ fs' = WriteFile(fs, path, content)
    /\ wrote' = [x \in DOMAIN wrote \cup {i} |-> IF x = i THEN content ELSE wrote[x]]
    /\ task' = [task EXCEPT ![i] = "ok"]

\* the transform of item i raises
TransformRaises(i) ==
    /\ task' = [task EXCEPT ![i] = "err"]
    /\ UNCHANGED <<fs, wrote>>

\* TranscriptProcessor._generate_single_transcript
GenerateSingleTranscript(i) ==
    /\ stage = "caption"
    /\ task[i] = "running"
    /\ \/ \E answer \in ModelAnswers(ExtractSlideNumber(items[i].name)) :
            TransformReturns(i, TranscriptPath(items[i]), GenerateDescription(answer))
       \/ TransformRaises(i)
    /\ UNCHANGED <<chunkVars, timelineVars, mainVars, firstRun, clientOf, pipeVars, stage, stagePc, items, collected, result,
                   raisedBy, allOriginal, prompts, rewriterFailed>>

\* AudioProcessor._generate_single_audio
GenerateSingleAudio(i) ==
    /\ stage = "narration"
    /\ task[i] = "running"
    /\ \/ /\ items[i] \in DOMAIN fs
          /\ TransformReturns(i, AudioPath(items[i]),
                              SynthesizeSpeech(Strip(fs[items[i]])))
       \/ TransformRaises(i)
    /\ UNCHANGED <<chunkVars, timelineVars, mainVars, firstRun, clientOf, pipeVars, stage, stagePc, items, collected, result,
                   raisedBy, allOriginal, prompts, rewriterFailed>>

\* "[This is the first slide]", the text that stands for a missing context
FirstSlideNote == <<"[", "1", "]">>

\* TranscriptPolisher._format_polishing_prompt
FormatPolishingPrompt(previous, current) ==
    [template |-> "polishing",
     previous |-> IF previous = <<>> THEN FirstSlideNote ELSE previous,
     current |-> current]

\* TranscriptPolisher._format_first_slide_prompt
FormatFirstSlidePrompt(current) ==
    [template |-> "first_slide", current |-> current]

\* mutant of PreviousContent: the context is the polished file of the previous
\* slide whenever that file is already on disk
PreviousContentPolished(k) ==
    IF PolishedPath(k - 1) \in DOMAIN fs THEN Strip(fs[PolishedPath(k - 1)])
    ELSE IF (k - 1) \in DOMAIN allOriginal THEN allOriginal[k - 1] ELSE <<>>

\* _polish_single_transcript: all_original_content.get(slide_number - 1, "")
PreviousContent(k) ==
    IF (k - 1) \in DOMAIN allOriginal THEN allOriginal[k - 1] ELSE <<>>

\* _polish_single_transcript: the prompt of slide k
PolishingPromptOf(k) ==
    IF k = 1 THEN FormatFirstSlidePrompt(allOriginal[k])
    ELSE FormatPolishingPrompt(PreviousContent(k), allOriginal[k])

\* mutant of PolishFallback: no fallback, the rewriter's error leaves the transform
PolishFallbackMissing(i) ==
    /\ TransformRaises(i)
    /\ rewriterFailed' = rewriterFailed \cup {i}

\* _polish_single_transcript, except branch: the original content is saved
\* as the polished file and the path is returned
PolishFallback(i) ==
    /\ TransformReturns(i, PolishedPath(items[i]), allOriginal[items[i]])
    /\ rewriterFailed' = rewriterFailed \cup {i}

\* TranscriptPolisher._polish_single_transcript
PolishSingleTranscript(i) ==
    /\ stage = "polish"
    /\ task[i] = "running"
    /\ prompts' = [x \in DOMAIN prompts \cup {i} |->
                      IF x = i THEN PolishingPromptOf(items[i]) ELSE prompts[x]]
    /\ \/ /\ \E answer \in RewriterAnswers(PolishingPromptOf(items[i])) :
                TransformReturns(i, PolishedPath(items[i]), GenerateDescription(answer))
          /\ UNCHANGED rewriterFailed
       \/ PolishFallback(i)
    /\ UNCHANGED <<chunkVars, timelineVars, mainVars, firstRun, clientOf, pipeVars, stage, stagePc, items, collected, result,
                   raisedBy, allOriginal>>

\* collection loop: future.result() returned a path, which is appended
FutureReturned(i) ==
    /\ collected' = Append(collected, OutPath(i))
    /\ task' = [task EXCEPT ![i] = "collected"]
    /\ UNCHANGED <<stagePc, raisedBy>>

\* mutant of FutureRaised: the error is logged and the loop goes on
FutureRaisedSwallowed(i) ==
    /\ task' = [task EXCEPT ![i] = "raised"]
    /\ UNCHANGED <<stagePc, raisedBy, collected>>

\* collection loop: future.result() raised; the error is logged and re-raised
\* out of the loop, into the exit of the executor's with-block
FutureRaised(i) ==
    /\ stagePc' = "unwinding"
    /\ raisedBy' = i
    /\ task' = [task EXCEPT ![i] = "raised"]
    /\ UNCHANGED collected

\* for future in as_completed(...): any finished future not yet yielded
CollectResult ==
    /\ stagePc = "collecting"
    /\ \E i \in Items :
        \/ task[i] = "ok" /\ FutureReturned(i)
        \/ task[i] = "err" /\ FutureRaised(i)
    /\ UNCHANGED <<chunkVars, timelineVars, mainVars, firstRun, clientOf, fs, pipeVars, stage, items, result, allOriginal, prompts,
                   wrote, rewriterFailed>>

\* mutant of ExecutorShutdown: the exception leaves the stage call at once,
\* the items that have not run are dropped
ExecutorShutdownCancels ==
    /\ stagePc = "unwinding"
    /\ stagePc' = "raised"
    /\ UNCHANGED <<chunkVars, timelineVars, mainVars, firstRun, clientOf, fs, pipeVars, stage, items, task, collected, result,
                   raisedBy, allOriginal, prompts, wrote, rewriterFailed>>

\* the with-block is left by the exception: shutdown(wait=True) returns once
\* every submitted item has run, then the exception leaves the stage call
ExecutorShutdown ==
    /\ stagePc = "unwinding"
    /\ Unfinished = {}
    /\ stagePc' = "raised"
    /\ UNCHANGED <<chunkVars, timelineVars, mainVars, firstRun, clientOf, fs, pipeVars, stage, items, task, collected, result,
                   raisedBy, allOriginal, prompts, wrote, rewriterFailed>>

\* the loop has yielded every future: the list is sorted and returned
StageReturn ==
    /\ stagePc = "collecting"
    /\ \A i \in Items : task[i] \in {"collected", "raised"}
    /\ result' = SortPaths(collected)
    /\ stagePc' = "returned"
    /\ UNCHANGED <<chunkVars, timelineVars, mainVars, firstRun, clientOf, fs, pipeVars, stage, items, task, collected, raisedBy,
                   allOriginal, prompts, wrote, rewriterFailed>>

\* ------------------------------------------------------------------ pipeline
\* dict keys of all_original_content, in insertion order
DictKeys(paths) ==
    LET Number(i) == ExtractSlideNumber(paths[i].name)
        Firsts == {i \in 1..Len(paths) : \A j \in 1..(i - 1) : Number(j) # Number(i)}
        Nth(r) == CHOOSE i \in Firsts : Cardinality({j \in Firsts : j < i}) = r - 1
    IN [r \in 1..Cardinality(Firsts) |-> Number(Nth(r))]

\* mutant of LoadAllTranscripts: only the first transcript is loaded before
\* the workers are launched
LoadAllTranscriptsFirstOnly(paths) ==
    [k \in {ExtractSlideNumber(paths[1].name)} |-> Strip(fs[paths[1]])]

\* TranscriptPolisher._load_all_transcripts: slide number -> f.read().strip()
LoadAllTranscripts(paths) ==
    LET Number(i) == ExtractSlideNumber(paths[i].name)
        Last(k) == CHOOSE i \in 1..Len(paths) :
                      /\ Number(i) = k
                      /\ \A j \in 1..Len(paths) : Number(j) = k => j <= i
    IN [k \in {Number(i) : i \in 1..Len(paths)} |-> Strip(fs[paths[Last(k)]])]

\* step 1: PDFProcessor.convert_to_images
ConvertPdfToImages ==
    /\ pc = "images"
    /\ \/ /\ imagePaths' = [k \in 1..numPages |-> ImagePath(k)]
          /\ fs' = [x \in DOMAIN fs \cup {ImagePath(k) : k \in 1..numPages} |->
                      IF x \in {ImagePath(k) : k \in 1..numPages}
                      THEN <<SlideChar(ExtractSlideNumber(x.name))>> ELSE fs[x]]
          /\ pc' = "transcripts"
       \/ /\ pc' = "failed"
          /\ UNCHANGED <<imagePaths, fs>>
    /\ UNCHANGED <<chunkVars, timelineVars, mainVars, numPages, enablePolishing, threadCount, transcriptPaths,
                   finalTranscriptPaths, audioPaths, videoCalls, stageVars>>

\* step 2: TranscriptProcessor.generate_transcripts(image_paths) is called
GenerateTranscripts ==
    /\ pc = "transcripts"
    /\ stagePc = "idle"
    /\ SubmitAll("caption", imagePaths)
    /\ UNCHANGED <<chunkVars, timelineVars, mainVars, firstRun, fs, pipeVars, allOriginal>>

\* step 3: the transcripts are returned; with polishing enabled
\* TranscriptPolisher.polish_transcripts(transcript_paths) is called
PolishTranscripts ==
    /\ pc = "transcripts"
    /\ stagePc = "returned"
    /\ enablePolishing
    /\ transcriptPaths' = result
    /\ finalTranscriptPaths' = result
    /\ pc' = "polish"
    /\ allOriginal' = LoadAllTranscripts(result)
    /\ SubmitAll("polish", DictKeys(result))
    /\ UNCHANGED <<chunkVars, timelineVars, mainVars, firstRun, fs, numPages, enablePolishing, threadCount, imagePaths,
                   audioPaths, videoCalls>>

\* step 4: AudioProcessor.generate_audio_files(final_transcript_paths) is called
GenerateAudio ==
    /\ stagePc = "returned"
    /\ \/ /\ pc = "transcripts"
          /\ ~enablePolishing
          /\ transcriptPaths' = result
       \/ /\ pc = "polish"
          /\ UNCHANGED transcriptPaths
    /\ finalTranscriptPaths' = result
    /\ pc' = "audio"
    /\ SubmitAll("narration", result)
    /\ UNCHANGED <<chunkVars, timelineVars, mainVars, firstRun, fs, numPages, enablePolishing, threadCount, imagePaths,
                   audioPaths, videoCalls, allOriginal>>

\* step 5: create_video(image_paths, audio_paths, final_transcript_paths)
CreateVideo ==
    /\ pc = "audio"
    /\ stagePc = "returned"
    /\ audioPaths' = result
    /\ videoCalls' = Append(videoCalls,
                            [image_paths |-> imagePaths, audio_paths |-> result,
                             transcript_paths |-> finalTranscriptPaths])
    /\ pc' \in {"done", "failed"}
    /\ stagePc' = "idle"
    /\ UNCHANGED <<chunkVars, timelineVars, mainVars, firstRun, clientOf, fs, numPages, enablePolishing, threadCount, imagePaths,
                   transcriptPaths, finalTranscriptPaths, stage, items, task,
                   collected, result, raisedBy, allOriginal, prompts, wrote,
                   rewriterFailed>>

\* mutant of PipelineFailed: after the error of a stage the pipeline starts over
\* from the transcripts
PipelineFailedRetries ==
    /\ pc \in {"transcripts", "polish", "audio"}
    /\ stagePc = "raised"
    /\ pc' = "transcripts"
    /\ stagePc' = "idle"
    /\ UNCHANGED <<chunkVars, timelineVars, mainVars, firstRun, clientOf, fs, numPages, enablePolishing, threadCount, imagePaths,
                   transcriptPaths, finalTranscriptPaths, audioPaths, videoCalls,
                   stage, items, task, collected, result, raisedBy, allOriginal,
                   prompts, wrote, rewriterFailed>>

\* run_full_pipeline, except branch: the error of a stage is logged and raised
PipelineFailed ==
    /\ pc \in {"transcripts", "polish", "audio"}
    /\ stagePc = "raised"
    /\ pc' = "failed"
    /\ UNCHANGED <<chunkVars, timelineVars, mainVars, fs, numPages, enablePolishing, threadCount, imagePaths,
                   transcriptPaths, finalTranscriptPaths, audioPaths, videoCalls,
                   stageVars>>

\* ------------------------------------------------------------ specification
NoFiles == [x \in {} |-> <<>>]

Init ==
    /\ fs = NoFiles
    /\ pc = "images"
    /\ numPages \in 1..MaxSlides
    /\ enablePolishing \in BOOLEAN
    /\ threadCount \in 1..MaxThreads
    /\ imagePaths = <<>>
    /\ transcriptPaths = <<>>
    /\ finalTranscriptPaths = <<>>
    /\ audioPaths = <<>>
    /\ videoCalls = <<>>
    /\ stage = "none"
    /\ stagePc = "idle"
    /\ items = <<>>
    /\ task = <<>>
    /\ collected = <<>>
    /\ result = <<>>
    /\ raisedBy = 0
    /\ allOriginal = <<>>
    /\ prompts = <<>>
    /\ wrote = <<>>
    /\ rewriterFailed = {}
    /\ clientOf = <<>>
    /\ firstRun = NoFirstRun
    /\ NoChunkCall
    /\ NoVideoCall
    /\ NoMainCall

\* no pipeline run is being followed
NoPipelineRun ==
    /\ fs = NoFiles
    /\ pc = "idle"
    /\ numPages = 0
    /\ enablePolishing = FALSE
    /\ threadCount = 1
    /\ imagePaths = <<>>
    /\ transcriptPaths = <<>>
    /\ finalTranscriptPaths = <<>>
    /\ audioPaths = <<>>
    /\ videoCalls = <<>>
    /\ stage = "none"
    /\ stagePc = "idle"
    /\ items = <<>>
    /\ task = <<>>
    /\ collected = <<>>
    /\ result = <<>>
    /\ raisedBy = 0
    /\ allOriginal = <<>>
    /\ prompts = <<>>
    /\ wrote = <<>>
    /\ rewriterFailed = {}
    /\ clientOf = <<>>
    /\ firstRun = NoFirstRun

\* the steps of one stage call
StageNext ==
    \/ StartTask
    \/ \E i \in Items : GenerateSingleTranscript(i)
    \/ \E i \in Items : PolishSingleTranscript(i)
    \/ \E i \in Items : GenerateSingleAudio(i)
    \/ CollectResult
    \/ ExecutorShutdown
    \/ StageReturn

Next ==
    \/ ConvertPdfToImages
    \/ GenerateTranscripts
    \/ PolishTranscripts
    \/ GenerateAudio
    \/ CreateVideo
    \/ PipelineFailed
    \/ StageNext

Spec == Init /\ [][Next]_vars

\* ------------------------------------------------ a stage that is run twice
\* what item i hands to its external collaborator: the image, the text to
\* speak, the prompt
CallInput(i) ==
    CASE stage = "caption" -> fs[items[i]]
      [] stage = "narration" -> IF items[i] \in DOMAIN fs THEN Strip(fs[items[i]]) ELSE <<>>
      [] stage = "polish" -> prompts[i]

\* the items whose collaborator call or whose transform raised
RaisedItems ==
    IF stage = "polish" THEN rewriterFailed
    ELSE {i \in Items : task[i] \in {"err", "raised"}}

\* the stage that has just ended, returned or raised, is called again with
\* the arguments of the first call (generate_transcripts, polish_transcripts
\* or generate_audio_files; polish_transcripts loads the transcripts again)
RunStageAgain ==
    /\ firstRun.stage = "none"
    /\ pc \in {"transcripts", "polish", "audio"}
    /\ stagePc \in {"returned", "raised"}
    /\ firstRun' = [stage |-> stage, files |-> fs,
                    calls |-> [i \in Items |-> CallInput(i)],
                    raised |-> RaisedItems, wrote |-> wrote]
    /\ pc' = "again"
    /\ allOriginal' = IF stage = "polish" THEN LoadAllTranscripts(transcriptPaths)
                      ELSE allOriginal
    /\ SubmitAll(stage, items)
    /\ UNCHANGED <<chunkVars, timelineVars, mainVars, fs, numPages, enablePolishing, threadCount,
                   imagePaths, transcriptPaths, finalTranscriptPaths, audioPaths,
                   videoCalls>>

\* the external collaborators are deterministic: in the second call a
\* collaborator that is handed what it was handed in the first call answers
\* or raises as it did then
CollaboratorsRepeat ==
    firstRun.stage # "none" =>
        \A i \in Items :
            (/\ task[i] = "running"
             /\ task'[i] # "running"
             /\ CallInput(i)' = firstRun.calls[i])
            => /\ (i \in RaisedItems') <=> (i \in firstRun.raised)
               /\ i \notin firstRun.raised => wrote'[i] = firstRun.wrote[i]

RerunNext ==
    \/ Next /\ CollaboratorsRepeat
    \/ RunStageAgain

SpecRerun == Init /\ [][RerunNext]_vars

\* ------------------------------------- the video step run on its own
\* name ends with ext
EndsWith(name, ext) ==
    /\ Len(name) >= Len(ext)
    /\ SubSeq(name, Len(name) - Len(ext) + 1, Len(name)) = ext

\* sorted(glob.glob(str(dir / "*<ext>"))): the files of dir with the
\* extension, in ascending order of their path strings
SortedGlob(dir, ext) ==
    LET matches == {p \in DOMAIN fs : p.dir = dir /\ EndsWith(p.name, ext)}
    IN [r \in 1..Cardinality(matches) |->
          CHOOSE p \in matches :
              Cardinality({q \in matches : StrLess(PathStr(q), PathStr(p))}) = r - 1]

\* pipeline.create_video() without arguments, after a full run: the three
\* lists are taken from the images, the audio and the transcripts directory
CreateVideoStandalone ==
    /\ pc = "done"
    /\ videoCalls' = Append(videoCalls,
                            [image_paths |-> SortedGlob(ImagesDir, PngExt),
                             audio_paths |-> SortedGlob(AudioDir, WavExt),
                             transcript_paths |-> SortedGlob(TranscriptsDir, TxtExt)])
    /\ pc' = "standalone"
    /\ UNCHANGED <<chunkVars, timelineVars, mainVars, fs, numPages, enablePolishing,
                   threadCount, imagePaths, transcriptPaths, finalTranscriptPaths,
                   audioPaths, stageVars>>

StandaloneNext ==
    \/ Next
    \/ CreateVideoStandalone

SpecStandalone == Init /\ [][StandaloneNext]_vars

\* -------------------------------------------------- a stage on a long deck
\* A deck of LongDeck slides, part-way through one stage call: the items
\* submitted first have run and been collected in submission order, the last
\* LongDeckTail items are still queued.
LongRawText(k) == GenerateDescription(<<SlideChar(k), "\n">>)

LongPolishedText(k) == GenerateDescription(<<"p">> \o LongRawText(k) \o <<"\n">>)

LongTranscripts == SortPaths([k \in 1..LongDeck |-> TranscriptPath(ImagePath(k))])

LongImages == [k \in 1..LongDeck |-> ImagePath(k)]

LongSlideKeys == DictKeys(LongTranscripts)

LongItems(s) ==
    CASE s = "caption" -> LongImages
      [] s = "polish" -> LongSlideKeys
      [] s = "narration" -> LongTranscripts

LongOutput(s, item) ==
    CASE s = "caption" -> TranscriptPath(item)
      [] s = "polish" -> PolishedPath(item)
      [] s = "narration" -> AudioPath(item)

LongContent(path) ==
    LET k == ExtractSlideNumber(path.name)
    IN CASE path.dir = ImagesDir -> <<SlideChar(k)>>
         [] path.dir = TranscriptsDir -> LongRawText(k)
         [] path.dir = PolishedDir -> LongPolishedText(k)
         [] path.dir = AudioDir -> SynthesizeSpeech(LongRawText(k))

LongFiles(s) ==
    LET done == LongDeck - LongDeckTail
        inputs == {ImagePath(k) : k \in 1..LongDeck}
                    \cup (IF s = "caption" THEN {}
                          ELSE {TranscriptPath(ImagePath(k)) : k \in 1..LongDeck})
        outputs == {LongOutput(s, LongItems(s)[i]) : i \in 1..done}
    IN [x \in inputs \cup outputs |-> LongContent(x)]

InitLongDeck ==
    /\ stage \in {"caption", "polish", "narration"}
    /\ pc = (CASE stage = "caption" -> "transcripts"
               [] stage = "polish" -> "polish"
               [] stage = "narration" -> "audio")
    /\ numPages = LongDeck
    /\ enablePolishing = (stage = "polish")
    /\ threadCount \in 1..MaxThreads
    /\ fs = LongFiles(stage)
    /\ imagePaths = LongImages
    /\ transcriptPaths = IF stage = "caption" THEN <<>> ELSE LongTranscripts
    /\ finalTranscriptPaths = transcriptPaths
    /\ audioPaths = <<>>
    /\ videoCalls = <<>>
    /\ stagePc = "collecting"
    /\ items = LongItems(stage)
    /\ task = [i \in 1..LongDeck |->
                 IF i <= LongDeck - LongDeckTail THEN "collected" ELSE "pending"]
    /\ collected = [i \in 1..(LongDeck - LongDeckTail) |-> OutPath(i)]
    /\ result = <<>>
    /\ raisedBy = 0
    /\ allOriginal = IF stage = "polish" THEN LoadAllTranscripts(LongTranscripts)
                     ELSE <<>>
    /\ prompts = [i \in (IF stage = "polish" THEN 1..(LongDeck - LongDeckTail) ELSE {}) |->
                    PolishingPromptOf(items[i])]
    /\ wrote = [i \in 1..(LongDeck - LongDeckTail) |-> fs[OutPath(i)]]
    /\ rewriterFailed = {}
    /\ clientOf = [i \in 1..(LongDeck - LongDeckTail) |-> ClientHandle(stage, i)]
    /\ firstRun = NoFirstRun
    /\ NoChunkCall
    /\ NoVideoCall
    /\ NoMainCall

SpecLongDeck == InitLongDeck /\ [][StageNext]_vars

\* ------------------------------------------- one call of the chunk function
MaxWords == 4
MaxLineWidth == 6
MaxLineCount == 4

\* the words transcripts are made of
Words == {<<"a">>, <<"b", "b">>, <<"c", "c", "c", "c">>}

\* the whitespace between the words of a transcript (sep) and around it (pad)
Spacings == {[sep |-> <<" ">>, pad |-> <<>>],
             [sep |-> <<"\n">>, pad |-> <<"\n">>],
             [sep |-> <<" ", "\n", "\t">>, pad |-> <<" ", " ">>]}

Transcripts ==
    {sp.pad \o JoinAll(ws, sp.sep) \o sp.pad :
        ws \in UNION {[1..n -> Words] : n \in 0..MaxWords}, sp \in Spacings}

InitChunks ==
    /\ NoPipelineRun
    /\ NoVideoCall
    /\ NoMainCall
    /\ chunkPc = "called"
    /\ argText \in Transcripts
    /\ argMaxCharsPerLine \in 1..MaxLineWidth
    /\ argMaxLines \in 1..MaxLineCount
    /\ initialChunks = <<>>
    /\ mergedChunks = <<>>
    /\ formattedChunks = <<>>

\* VideoProcessor._split_text_into_subtitle_chunks, the whole call
SplitText ==
    /\ chunkPc = "called"
    /\ chunkPc' = "returned"
    /\ initialChunks' = GreedyChunksOf(argText, argMaxCharsPerLine, argMaxLines)
    /\ mergedChunks' = MergedChunksOf(argText, argMaxCharsPerLine, argMaxLines)
    /\ formattedChunks' = SplitTextIntoSubtitleChunks(argText, argMaxCharsPerLine,
                                                      argMaxLines)
    /\ UNCHANGED <<mainVars, fs, pipeVars, stageVars, timelineVars, argText,
                   argMaxCharsPerLine, argMaxLines>>

SpecChunks == InitChunks /\ [][SplitText]_vars

\* ------------------------------------------------- the assembly of the video
\* Times are whole ticks. TicksPerSecond is a multiple of every chunk count
\* that occurs, so that audio_duration / len(text_chunks) is exact for audio
\* durations of whole seconds.
TicksPerSecond == 2 * 2 * 2 * 3 * 3 * 5 * 7

\* the 1.5 of "if actual_duration < 1.5"
MinSubtitleTicks == (3 * TicksPerSecond) \div 2

\* the 6.0 of "elif actual_duration > 6.0"
MaxSubtitleTicks == 6 * TicksPerSecond

\* defaults of _split_text_into_subtitle_chunks
DefaultMaxCharsPerLine == 50
DefaultMaxLines == 2

MaxVideoSlides == 3
MaxSlideChunks == 3

\* AudioFileClip(audio_path).duration, in seconds
AudioSeconds == {0, 2, 3, 10}

\* self.transition_break, in seconds
BreakSeconds == {0, 1}

\* a word that fills one subtitle line
LongWord == [i \in 1..DefaultMaxCharsPerLine |-> "w"]

\* the transcript files of the slides: blank, one short sentence, several
\* words of which no two share a chunk
BlankText == <<"\n">>

ShortText == <<"h", "i", " ", "y", "o", "u", "\n">>

LongText == JoinAll([k \in 1..MaxSlideChunks |-> LongWord], <<" ">>) \o <<"\n">>

SlideTexts == {BlankText, ShortText, LongText}

\* the audio file and the transcript file a slide may come with: a short
\* sentence spoken in 2, 3 or 10 seconds, several chunks spoken in 0, 2 or
\* 10 seconds, a blank transcript
SlideFiles ==
    {f \in [seconds : AudioSeconds, text : SlideTexts] :
        \/ f.text = ShortText /\ f.seconds \in {2, 3, 10}
        \/ f.text = LongText /\ f.seconds \in {0, 2, 10}
        \/ f.text = BlankText /\ f.seconds = 3}

Smaller(a, b) == IF a <= b THEN a ELSE b

\* mutant of TotalDuration: the break is added to the last slide too
TotalDurationAlwaysBreak(audioDuration, i, break) ==
    IF break > 0 THEN audioDuration + break ELSE audioDuration

\* total_duration: the break is added to every slide but the last of image_paths
TotalDuration(audioDuration, i, break) ==
    IF i # imageCount - 1 /\ break > 0 THEN audioDuration + break ELSE audioDuration

\* chunk_duration
ChunkDuration(audioDuration, chunkCount) ==
    IF chunkCount > 0 THEN audioDuration \div chunkCount ELSE audioDuration

\* start_time of chunk j (from 0)
ChunkStart(now, j, chunkDuration) == now + (j * chunkDuration)

\* mutant of ChunkEnd: the end is not held back to the end of the audio
ChunkEndUnclamped(now, j, chunkDuration, audioDuration) ==
    IF chunkDuration < MinSubtitleTicks
    THEN ChunkStart(now, j, chunkDuration) + MinSubtitleTicks
    ELSE IF chunkDuration > MaxSubtitleTicks
    THEN ChunkStart(now, j, chunkDuration) + MaxSubtitleTicks
    ELSE now + ((j + 1) * chunkDuration)

\* mutant of ChunkEnd: only the last chunk of a slide is held to the end of
\* the slide's audio
ChunkEndClampedLastOnly(now, j, chunkDuration, audioDuration) ==
    IF (j + 1) * chunkDuration = audioDuration
    THEN Smaller(ChunkEndUnclamped(now, j, chunkDuration, audioDuration),
                 now + audioDuration)
    ELSE ChunkEndUnclamped(now, j, chunkDuration, audioDuration)

\* mutant of ChunkEnd: every chunk is shown for the minimum duration
ChunkEndShortest(now, j, chunkDuration, audioDuration) ==
    Smaller(ChunkStart(now, j, chunkDuration) + MinSubtitleTicks, now + audioDuration)

\* end_time of chunk j (from 0)
ChunkEnd(now, j, chunkDuration, audioDuration) ==
    LET endTime == now + ((j + 1) * chunkDuration)
        actualDuration == endTime - ChunkStart(now, j, chunkDuration)
        bounded == IF actualDuration < MinSubtitleTicks
                   THEN ChunkStart(now, j, chunkDuration) + MinSubtitleTicks
                   ELSE IF actualDuration > MaxSubtitleTicks
                   THEN ChunkStart(now, j, chunkDuration) + MaxSubtitleTicks
                   ELSE endTime
    IN Smaller(bounded, now + audioDuration)

\* the entries appended to srt_entries for one slide
SlideEntries(textChunks, now, audioDuration, firstIndex) ==
    LET chunkDuration == ChunkDuration(audioDuration, Len(textChunks))
    IN [c \in 1..Len(textChunks) |->
          [index |-> firstIndex + (c - 1),
           start |-> ChunkStart(now, c - 1, chunkDuration),
           end |-> ChunkEnd(now, c - 1, chunkDuration, audioDuration),
           text |-> textChunks[c]]]

\* mutant of NextSlideTime: the clock is set to the length of the slide
NextSlideTimeReset(now, totalDuration) == totalDuration

\* current_time += total_duration
NextSlideTime(now, totalDuration) == now + totalDuration

\* iterations of "for ... in enumerate(zip(image_paths, audio_paths))"
SlideCount == Smaller(imageCount, audioCount)

\* the lists handed over are equally long or one of them misses or exceeds
\* the others by one item
OffByAtMostOne(a, b) == a - b \in {-1, 0, 1}

InitVideo ==
    /\ NoPipelineRun
    /\ NoChunkCall
    /\ NoMainCall
    /\ videoPc = "slides"
    /\ imageCount \in 0..MaxVideoSlides
    /\ audioCount \in 0..MaxVideoSlides
    /\ transcriptCount \in 0..MaxVideoSlides
    /\ OffByAtMostOne(imageCount, audioCount)
    /\ OffByAtMostOne(imageCount, transcriptCount)
    /\ OffByAtMostOne(audioCount, transcriptCount)
    /\ transitionBreak \in {b * TicksPerSecond : b \in BreakSeconds}
    /\ slidesDone = 0
    /\ currentTime = 0
    /\ subtitleIndex = 1
    /\ clips = <<>>
    /\ srtEntries = <<>>
    /\ audioDurations = <<>>
    /\ slideStarts = <<>>
    /\ entrySlide = <<>>
    /\ written = {}

\* one iteration of the slide loop: the audio of the slide turns out to last
\* audioDuration, its transcript file to hold text
ProcessSlide ==
    /\ videoPc = "slides"
    /\ slidesDone < SlideCount
    /\ \E file \in SlideFiles :
          LET i == slidesDone
              text == file.text
              audioDuration == file.seconds * TicksPerSecond
              totalDuration == TotalDuration(audioDuration, i, transitionBreak)
              textChunks == IF i < transcriptCount
                            THEN SplitTextIntoSubtitleChunks(Strip(text),
                                     DefaultMaxCharsPerLine, DefaultMaxLines)
                            ELSE <<>>
          IN /\ clips' = Append(clips, totalDuration)
             /\ srtEntries' = srtEntries \o SlideEntries(textChunks, currentTime,
                                                         audioDuration, subtitleIndex)
             /\ subtitleIndex' = subtitleIndex + Len(textChunks)
             /\ currentTime' = NextSlideTime(currentTime, totalDuration)
             /\ audioDurations' = Append(audioDurations, audioDuration)
             /\ slideStarts' = Append(slideStarts, currentTime)
             /\ entrySlide' = entrySlide \o [c \in 1..Len(textChunks) |-> i + 1]
    /\ slidesDone' = slidesDone + 1
    /\ UNCHANGED <<mainVars, fs, pipeVars, stageVars, chunkVars, videoPc, imageCount,
                   audioCount, transcriptCount, transitionBreak, written>>

\* AudioFileClip, ImageClip or the open of the transcript raises
SlideRaises ==
    /\ videoPc = "slides"
    /\ slidesDone < SlideCount
    /\ videoPc' = "raised"
    /\ UNCHANGED <<mainVars, fs, pipeVars, stageVars, chunkVars, imageCount, audioCount,
                   transcriptCount, transitionBreak, slidesDone, currentTime,
                   subtitleIndex, clips, srtEntries, audioDurations, slideStarts,
                   entrySlide, written>>

\* concatenate_videoclips(clips) and final_video.write_videofile(...): no clip
\* to concatenate raises; the encoder may fail, before or after it has created
\* the file
WriteVideo ==
    /\ videoPc = "slides"
    /\ slidesDone = SlideCount
    /\ \/ /\ clips # <<>>
          /\ videoPc' = "srt"
          /\ written' = written \cup {"mp4"}
       \/ /\ videoPc' = "raised"
          /\ \/ written' = written
             \/ clips # <<>> /\ written' = written \cup {"mp4"}
    /\ UNCHANGED <<mainVars, fs, pipeVars, stageVars, chunkVars, imageCount, audioCount,
                   transcriptCount, transitionBreak, slidesDone, currentTime,
                   subtitleIndex, clips, srtEntries, audioDurations, slideStarts,
                   entrySlide>>

\* _write_srt_file(srt_entries, srt_output_path) and the return
WriteSrt ==
    /\ videoPc = "srt"
    /\ \/ /\ videoPc' = "returned"
          /\ written' = written \cup {"srt"}
       \/ /\ videoPc' = "raised"
          /\ written' \in {written, written \cup {"srt"}}
    /\ UNCHANGED <<mainVars, fs, pipeVars, stageVars, chunkVars, imageCount, audioCount,
                   transcriptCount, transitionBreak, slidesDone, currentTime,
                   subtitleIndex, clips, srtEntries, audioDurations, slideStarts,
                   entrySlide>>

VideoNext ==
    \/ ProcessSlide
    \/ SlideRaises
    \/ WriteVideo
    \/ WriteSrt

SpecVideo == InitVideo /\ [][VideoNext]_vars

\* ------------------------------------------------------ the command line run
\* pdf2video.py: the choices of --step and of --api-provider
Steps == {"all", "images", "transcripts", "audio", "video"}
ApiProviders == {"gemini", "openai"}

\* the parsed arguments, with whether the file named by --input exists
CliArgs == [step : Steps, api_provider : ApiProviders, input_exists : BOOLEAN]

\* what Config reads from the environment: whether the keys are set, the
\* audio format, ENABLE_POLISHING, whether the numeric settings parse, and
\* whether the Google client library finds credentials
Envs ==
    [gemini_api_key : BOOLEAN, openai_api_key : BOOLEAN,
     audio_format : {"wav", "mp3", "ogg"}, enable_polishing : BOOLEAN,
     numbers_parse : BOOLEAN, tts_credentials : BOOLEAN]

\* Config.__init__ raises: int() or float() of a setting, or _validate_config
ConfigRaises(args, e) ==
    \/ ~e.numbers_parse
    \/ args.api_provider \notin {"gemini", "openai"}
    \/ args.api_provider = "gemini" /\ ~e.gemini_api_key
    \/ args.api_provider = "openai" /\ ~e.openai_api_key
    \/ e.audio_format \notin {"wav", "mp3"}

\* the parameters of every processor constructor, self left out, and those
\* without a default
InitSignature ==
    [PDFProcessor |->
        [params |-> {"dpi"}, required |-> {}],
     TranscriptProcessor |->
        [params |-> {"ai_provider_type", "api_key", "model_name", "prompt",
                     "thread_count"},
         required |-> {"ai_provider_type", "api_key", "model_name", "prompt"}],
     TranscriptPolisher |->
        [params |-> {"ai_provider_type", "api_key", "model_name",
                     "polishing_prompt", "first_slide_prompt", "thread_count"},
         required |-> {"ai_provider_type", "api_key", "model_name",
                       "polishing_prompt", "first_slide_prompt"}],
     AudioProcessor |->
        [params |-> {"language_code", "voice_name", "voice_gender", "audio_format",
                     "is_chirp3_voice", "thread_count", "speaking_rate"},
         required |-> {"language_code", "voice_name", "voice_gender"}],
     VideoProcessor |->
        [params |-> {"fps", "codec", "audio_codec", "transition_break"},
         required |-> {}]]

\* _setup_processors: the constructor calls it makes, in order, with the
\* keyword arguments it passes
SetupCalls(e) ==
    <<[callee |-> "PDFProcessor", passed |-> {"dpi"}],
      [callee |-> "TranscriptProcessor",
       passed |-> {"ai_provider_type", "api_key", "model_name", "prompt",
                   "thread_count"}]>>
    \o (IF e.enable_polishing
        THEN <<[callee |-> "TranscriptPolisher",
                passed |-> {"ai_provider_type", "api_key", "model_name",
                            "polishing_prompt", "first_slide_prompt",
                            "thread_count"}]>>
        ELSE <<>>)
    \o <<[callee |-> "AudioProcessor",
          passed |-> {"language_code", "voice_name", "voice_gender", "audio_format",
                      "is_chirp3_voice", "thread_count", "speaking_rate"}],
         [callee |-> "VideoProcessor",
          passed |-> {"fps", "codec", "audio_codec", "transition_break",
                      "video_quality", "preset", "resolution_scale"}]>>

\* a call with keyword arguments binds: every keyword is a parameter and
\* every parameter without a default is given (TypeError otherwise)
Accepts(signature, passed) ==
    /\ passed \subseteq signature.params
    /\ signature.required \subseteq passed

\* the call that raises out of a constructor call, "" if none:
\* the constructor itself for a TypeError, TextToSpeechClient for the client
\* AudioProcessor.__init__ creates
RaisesIn(call, e) ==
    IF ~Accepts(InitSignature[call.callee], call.passed) THEN call.callee
    ELSE IF call.callee = "AudioProcessor" /\ ~e.tts_credentials
         THEN "TextToSpeechClient"
    ELSE ""

\* the first constructor call of _setup_processors that raises, 0 if none
FirstRaising(e) ==
    LET calls == SetupCalls(e)
        raising == {c \in 1..Len(calls) : RaisesIn(calls[c], e) # ""}
    IN IF raising = {} THEN 0
       ELSE CHOOSE c \in raising : \A x \in raising : c <= x

InitMain ==
    /\ NoPipelineRun
    /\ NoChunkCall
    /\ NoVideoCall
    /\ mainPc = "input"
    /\ cliArgs \in CliArgs
    /\ env \in Envs
    /\ constructed = <<>>
    /\ failedIn = ""

\* main: the next statement of the try block: the check of the input file,
\* Config(...), PDF2VideoPipeline(config), the requested step
MainTryStep ==
    /\ CASE mainPc = "input" ->
              /\ mainPc' = IF cliArgs.input_exists THEN "config" ELSE "exit1"
              /\ UNCHANGED <<constructed, failedIn>>
         [] mainPc = "config" ->
              /\ mainPc' = IF ConfigRaises(cliArgs, env) THEN "raised" ELSE "pipeline"
              /\ failedIn' = IF ConfigRaises(cliArgs, env) THEN "Config" ELSE ""
              /\ UNCHANGED constructed
         [] mainPc = "pipeline" ->
              LET calls == SetupCalls(env)
                  r == FirstRaising(env)
                  done == IF r = 0 THEN Len(calls) ELSE r - 1
              IN /\ constructed' = [c \in 1..done |-> calls[c].callee]
                 /\ mainPc' = IF r = 0 THEN "step" ELSE "raised"
                 /\ failedIn' = IF r = 0 THEN "" ELSE RaisesIn(calls[r], env)
         [] mainPc = "step" ->
              /\ mainPc' = "stage_started"
              /\ UNCHANGED <<constructed, failedIn>>
         [] OTHER -> FALSE
    /\ UNCHANGED <<fs, pipeVars, stageVars, chunkVars, timelineVars, cliArgs, env>>

\* main, except Exception: the error is logged and the process exits with 1
MainExcept ==
    /\ mainPc = "raised"
    /\ mainPc' = "exit1"
    /\ UNCHANGED <<fs, pipeVars, stageVars, chunkVars, timelineVars, cliArgs, env,
                   constructed, failedIn>>

MainNext ==
    \/ MainTryStep
    \/ MainExcept

SpecMain == InitMain /\ [][MainNext]_vars

\* ------------------------------------------------------------------- claims
SlideIndexOf(path) == ExtractSlideNumber(path.name)

\* C1: the list a caption, polish or narration stage call returns is in
\* ascending numeric slide-index order, whatever the number of slides, the
\* pool size and the completion order.
C1_ResultInSlideOrder ==
    stagePc = "returned" =>
        \A i, j \in 1..Len(result) :
            i < j => SlideIndexOf(result[i]) < SlideIndexOf(result[j])

\* C2: in the caption and the narration stage, once the transform of any item
\* has raised, the stage call raises and never returns a list: a stage call
\* that returned had no failed item, and a stage call that raised re-raises the
\* error of the one failed future its collection loop observed, every future
\* observed before it having returned.
C2_FailedItemFailsStage ==
    stage \in {"caption", "narration"} =>
        /\ stagePc = "returned" => \A i \in Items : task[i] = "collected"
        /\ stagePc \in {"unwinding", "raised"} =>
            /\ result = <<>>
            /\ raisedBy \in Items
            /\ \A i \in Items : task[i] = "raised" <=> i = raisedBy
            /\ Len(collected) = Cardinality({i \in Items : task[i] = "collected"})
        /\ stagePc = "collecting" => \A i \in Items : task[i] # "raised"

\* C2 witness: a stage call has raised after collecting a result, while another
\* failed future was never observed.
C2_Witness ==
    /\ stage \in {"caption", "narration"}
    /\ stagePc = "raised"
    /\ \E i \in Items : task[i] = "collected"
    /\ \E j \in Items : task[j] = "err"

\* C3: in the caption and the narration stage, whenever the transform of an
\* item has returned, its artifact is on disk with the content the transform
\* wrote, and it stays so while the stage goes on, fails, and after it failed.
C3_CompletedArtifactsKept ==
    stage \in {"caption", "narration"} =>
        \A i \in Items :
            task[i] \in {"ok", "collected"} =>
                /\ i \in DOMAIN wrote
                /\ OutPath(i) \in DOMAIN fs
                /\ fs[OutPath(i)] = wrote[i]

\* C3 witness: the stage call has failed, and an item that completed (and was
\* never collected) has its artifact on disk.
C3_Witness ==
    /\ stage \in {"caption", "narration"}
    /\ stagePc = "raised"
    /\ pc = "failed"
    /\ \E i \in Items :
        /\ task[i] = "ok"
        /\ OutPath(i) \in DOMAIN fs
        /\ fs[OutPath(i)] = wrote[i]

\* the raw transcript file of slide k, and its text as the polisher reads it
RawTranscriptFile(k) ==
    CHOOSE p \in {transcriptPaths[i] : i \in 1..Len(transcriptPaths)} :
        SlideIndexOf(p) = k

RawTranscript(k) == Strip(fs[RawTranscriptFile(k)])

\* C4: in the polish stage, under every interleaving, the prompt of slide 1 is
\* the first-slide prompt built from the raw transcript of slide 1 alone, and
\* the prompt of slide k > 1 is the polishing prompt whose content is the raw
\* transcript of slide k and whose context is the raw transcript of slide k-1
\* (the first-slide note standing for an empty one); never a polished text.
C4_PromptFromRawOnly ==
    stage = "polish" =>
        \A i \in DOMAIN prompts :
            LET k == items[i]
            IN /\ prompts[i].current = RawTranscript(k)
               /\ k = 1 =>
                    /\ prompts[i].template = "first_slide"
                    /\ DOMAIN prompts[i] = {"template", "current"}
               /\ k > 1 =>
                    /\ prompts[i].template = "polishing"
                    /\ DOMAIN prompts[i] = {"template", "previous", "current"}
                    /\ prompts[i].previous =
                         (IF RawTranscript(k - 1) = <<>> THEN FirstSlideNote
                          ELSE RawTranscript(k - 1))

\* C4 witness: with one worker, the prompt of slide 2 was built while the
\* polished file of slide 1, different from its raw transcript, was on disk.
C4_Witness ==
    /\ stage = "polish"
    /\ threadCount = 1
    /\ \E i \in DOMAIN prompts :
        /\ items[i] = 2
        /\ prompts[i].previous = RawTranscript(1)
        /\ PolishedPath(1) \in DOMAIN fs
        /\ Strip(fs[PolishedPath(1)]) # RawTranscript(1)

\* C5: the polish stage never fails; the polished file of every slide whose
\* rewriter call raised is byte-identical to the raw transcript file of that
\* slide; and when every rewriter call raised, the polished directory holds
\* exactly one file per input slide, each identical to the raw transcript.
C5_FallbackKeepsRaw ==
    stage = "polish" =>
        /\ stagePc \notin {"unwinding", "raised"}
        /\ \A i \in Items : task[i] \notin {"err", "raised"}
        /\ \A i \in rewriterFailed :
            /\ PolishedPath(items[i]) \in DOMAIN fs
            /\ fs[PolishedPath(items[i])] = fs[RawTranscriptFile(items[i])]
        /\ (stagePc = "returned" /\ rewriterFailed = Items) =>
            /\ {p \in DOMAIN fs : p.dir = PolishedDir}
                 = {PolishedPath(SlideIndexOf(transcriptPaths[n])) :
                      n \in 1..Len(transcriptPaths)}
            /\ Len(result) = Len(transcriptPaths)
            /\ \A n \in 1..Len(transcriptPaths) :
                 fs[PolishedPath(SlideIndexOf(transcriptPaths[n]))]
                   = fs[transcriptPaths[n]]

\* C5 witness: the polish stage has returned although the rewriter raised for
\* every one of at least two slides, one of them with an empty raw transcript.
C5_Witness ==
    /\ stage = "polish"
    /\ stagePc = "returned"
    /\ Len(items) >= 2
    /\ rewriterFailed = Items
    /\ \E i \in Items : fs[PolishedPath(items[i])] = <<>>
    /\ \E i \in Items : fs[PolishedPath(items[i])] # <<>>

\* a formatted chunk with its line breaks turned back into spaces
Unwrap(chunk) == [i \in 1..Len(chunk) |-> IF chunk[i] = "\n" THEN " " ELSE chunk[i]]

MaxChunkChars == argMaxCharsPerLine * argMaxLines

\* C6: the returned chunks, line breaks read as spaces and the chunks joined
\* by single spaces, spell the whitespace-normalised transcript, for every
\* max_chars_per_line >= 1 and max_lines >= 1.
C6_ChunksRoundTrip ==
    chunkPc = "returned" =>
        JoinAll([c \in 1..Len(formattedChunks) |-> Unwrap(formattedChunks[c])], <<" ">>)
            = NormalizeText(argText)

\* a transcript with irregular whitespace came back as several chunks, one of
\* them broken into lines
C6_Witness ==
    /\ chunkPc = "returned"
    /\ argText # NormalizeText(argText)
    /\ Len(formattedChunks) >= 2
    /\ \E c \in 1..Len(formattedChunks) :
          \E i \in 1..Len(formattedChunks[c]) : formattedChunks[c][i] = "\n"

\* C7: every returned chunk has at most max_chars_per_line * max_lines
\* characters, or is one single word longer than that.
C7_ChunkWithinCapOrOneWord ==
    chunkPc = "returned" =>
        \A c \in 1..Len(formattedChunks) :
            \/ Len(formattedChunks[c]) <= MaxChunkChars
            \/ \A i \in 1..Len(formattedChunks[c]) : ~IsSpace(formattedChunks[c][i])

\* one returned chunk is a single word over the cap, another holds several words
C7_Witness ==
    /\ chunkPc = "returned"
    /\ \E c \in 1..Len(formattedChunks) :
          /\ Len(formattedChunks[c]) > MaxChunkChars
          /\ \A i \in 1..Len(formattedChunks[c]) : ~IsSpace(formattedChunks[c][i])
    /\ \E c \in 1..Len(formattedChunks) :
          /\ Len(formattedChunks[c]) <= MaxChunkChars
          /\ \E i \in 1..Len(formattedChunks[c]) : IsSpace(formattedChunks[c][i])

EntriesOfSlide(k) == {e \in 1..Len(srtEntries) : entrySlide[e] = k}

\* C9: in srt_entries, in emission order, start times never decrease, within
\* a slide and from one slide to the next, for audio durations >= 0 and a
\* transition break >= 0.
C9_StartsNonDecreasing ==
    \A e \in 1..(Len(srtEntries) - 1) : srtEntries[e].start <= srtEntries[e + 1].start

\* the call returned with two entries of one slide followed by an entry of
\* the next slide, the first slide having audio and a break after it
C9_Witness ==
    /\ videoPc = "returned"
    /\ transitionBreak > 0
    /\ \E e \in 1..(Len(srtEntries) - 2) :
          /\ entrySlide[e] = entrySlide[e + 1]
          /\ entrySlide[e + 1] # entrySlide[e + 2]
          /\ srtEntries[e].start < srtEntries[e + 1].start
          /\ srtEntries[e + 1].start < srtEntries[e + 2].start

\* C10: for a slide starting at s with audio duration D, every entry lasts
\* between 1.5 and 6.0 seconds unless its end is the clamp s + D, and the
\* last entry of the slide ends at or before s + D.
C10_DurationBoundedOrClamped ==
    \A e \in 1..Len(srtEntries) :
        LET audioEnd == slideStarts[entrySlide[e]] + audioDurations[entrySlide[e]]
            shown == srtEntries[e].end - srtEntries[e].start
        IN /\ \/ MinSubtitleTicks <= shown /\ shown <= MaxSubtitleTicks
              \/ srtEntries[e].end = audioEnd
           /\ (\A f \in EntriesOfSlide(entrySlide[e]) : f <= e) =>
                 srtEntries[e].end <= audioEnd

\* the timeline holds an entry stretched to 1.5 seconds, an entry cut to 6.0
\* seconds, an entry of a length in between and an entry shorter than 1.5
\* seconds that ends with the audio of its slide
C10_Witness ==
    /\ videoPc = "returned"
    /\ \E e \in 1..Len(srtEntries) :
          /\ srtEntries[e].end - srtEntries[e].start = MinSubtitleTicks
          /\ ChunkDuration(audioDurations[entrySlide[e]],
                           Cardinality(EntriesOfSlide(entrySlide[e]))) < MinSubtitleTicks
    /\ \E e \in 1..Len(srtEntries) :
          /\ srtEntries[e].end - srtEntries[e].start = MaxSubtitleTicks
          /\ ChunkDuration(audioDurations[entrySlide[e]],
                           Cardinality(EntriesOfSlide(entrySlide[e]))) > MaxSubtitleTicks
    /\ \E e \in 1..Len(srtEntries) :
          /\ srtEntries[e].end - srtEntries[e].start > MinSubtitleTicks
          /\ srtEntries[e].end - srtEntries[e].start < MaxSubtitleTicks
    /\ \E e \in 1..Len(srtEntries) :
          /\ srtEntries[e].end - srtEntries[e].start < MinSubtitleTicks
          /\ srtEntries[e].end = slideStarts[entrySlide[e]] + audioDurations[entrySlide[e]]

\* C11: consecutive entries of srt_entries never overlap: every entry ends at
\* or before the start of the entry after it.
C11_NoOverlap ==
    \A e \in 1..(Len(srtEntries) - 1) : srtEntries[e].end <= srtEntries[e + 1].start

RECURSIVE SumSeq(_)
SumSeq(s) == IF s = <<>> THEN 0 ELSE Head(s) + SumSeq(Tail(s))

\* C12: once the loop has processed all n >= 1 slides of image_paths,
\* current_time is the sum of the n audio durations plus n - 1 transition
\* breaks: the break follows every slide but the last.
C12_ClockIsSumPlusBreaks ==
    (imageCount >= 1 /\ slidesDone = imageCount) =>
        currentTime = SumSeq(audioDurations) + ((imageCount - 1) * transitionBreak)

\* the call returned after three slides with audio and a break between them
C12_Witness ==
    /\ videoPc = "returned"
    /\ imageCount = 3
    /\ slidesDone = imageCount
    /\ transitionBreak > 0
    /\ \A k \in 1..3 : audioDurations[k] > 0
    /\ audioDurations[1] # audioDurations[2]

\* the scenario of three slides with audio of 2.0, 10.0 and 3.0 seconds, no
\* transition break and one short sentence in every transcript, all processed
ThreeShortSlides ==
    /\ imageCount = 3
    /\ audioCount = 3
    /\ transcriptCount = 3
    /\ transitionBreak = 0
    /\ slidesDone = 3
    /\ audioDurations = <<2 * TicksPerSecond, 10 * TicksPerSecond, 3 * TicksPerSecond>>
    /\ \A k \in 1..3 : EntriesOfSlide(k) # {}
    /\ \A e \in 1..Len(srtEntries) : srtEntries[e].text = Strip(ShortText)

\* C13 as stated: in that scenario slide 1 gives exactly one entry, and the
\* entry spans [0.0, 1.5].
C13_FirstEntryEndsAtMinimum ==
    ThreeShortSlides =>
        /\ EntriesOfSlide(1) = {1}
        /\ srtEntries[1].start = 0
        /\ srtEntries[1].end = MinSubtitleTicks

\* C13 amended: in that scenario slide 1 gives exactly one entry, and the
\* entry spans the whole audio of the slide, [0.0, 2.0].
C13_FirstEntrySpansAudio ==
    ThreeShortSlides =>
        /\ EntriesOfSlide(1) = {1}
        /\ srtEntries[1].start = 0
        /\ srtEntries[1].end = 2 * TicksPerSecond

\* the scenario has run to the end of the call
C13_Witness ==
    /\ ThreeShortSlides
    /\ videoPc = "returned"

\* C14: when image_paths, audio_paths and transcript_paths are not equally
\* long, create_video_with_subtitles does not return and writes neither the
\* video nor the subtitle file.
C14_MismatchIsFatal ==
    (imageCount # audioCount \/ imageCount # transcriptCount) =>
        /\ videoPc # "returned"
        /\ written = {}

\* C15: once create_video_with_subtitles has ended, by returning or by an
\* error at any step, either the video file and the subtitle file have both
\* been written or neither has.
C15_AllOrNothing ==
    videoPc \in {"returned", "raised"} => written \in {{}, {"mp4", "srt"}}

\* a step that calls a concurrent stage
StageCalled == stagePc # "collecting" /\ stagePc' = "collecting"

\* the stage call that went before has returned a path for every page
PreviousReturnedAll == stagePc = "returned" /\ Len(result) = numPages

\* C16: run_full_pipeline calls the stages in the order images, transcripts,
\* polish (only when enabled), audio, video, each only after the one before
\* has returned its complete output; once a stage has raised no stage is
\* called any more, none is called a second time, and the pipeline ends
\* failed.
C16_StagesInOrder ==
    [][/\ StageCalled =>
            /\ pc # "failed"
            /\ stage' \in {"caption", "polish", "narration"}
            /\ stage' = "caption" =>
                  /\ stage = "none"
                  /\ pc = "transcripts"
                  /\ Len(imagePaths) = numPages
            /\ stage' = "polish" =>
                  /\ stage = "caption"
                  /\ enablePolishing
                  /\ PreviousReturnedAll
            /\ stage' = "narration" =>
                  /\ stage = (IF enablePolishing THEN "polish" ELSE "caption")
                  /\ PreviousReturnedAll
       /\ ~StageCalled => stage' = stage
       /\ videoCalls' # videoCalls =>
            /\ videoCalls = <<>>
            /\ Len(videoCalls') = 1
            /\ stage = "narration"
            /\ PreviousReturnedAll
       /\ (stagePc \in {"unwinding", "raised"} \/ pc \in {"failed", "done"}) =>
            /\ ~StageCalled
            /\ videoCalls' = videoCalls
            /\ pc' \in {pc, "failed"}
       /\ pc \in {"failed", "done"} => pc' = pc
      ]_vars

\* the narration stage raised after the caption and the polish stage had
\* returned, and the pipeline ended failed without a call of create_video
C16_Witness ==
    /\ pc = "failed"
    /\ enablePolishing
    /\ stage = "narration"
    /\ stagePc = "raised"
    /\ numPages >= 2
    /\ videoCalls = <<>>
    /\ \E p \in DOMAIN fs : p.dir = PolishedDir

\* C17: in the caption, the polish and the narration stage no two workers
\* that run at the same time use the same external client handle.
C17_NoSharedClient ==
    \A i \in Running : \A j \in Running :
        i # j => clientOf[i] # clientOf[j]

\* the lines of a display text
DisplayLines(display) ==
    LET breaks == {i \in 1..Len(display) : display[i] = "\n"}
        Nth(r) == CHOOSE x \in breaks : Cardinality({y \in breaks : y < x}) = r - 1
        From(r) == IF r = 1 THEN 1 ELSE Nth(r - 1) + 1
        To(r) == IF r = Cardinality(breaks) + 1 THEN Len(display) ELSE Nth(r) - 1
    IN [r \in 1..(Cardinality(breaks) + 1) |-> SubSeq(display, From(r), To(r))]

\* the lines word-wrap gives a chunk before any re-split
NaturalLines(chunk) == Accumulate(SplitWords(chunk), <<>>, <<>>, argMaxCharsPerLine)

\* C18: for every chunk and every max_chars_per_line >= 1 the display text
\* _format_chunk_lines returns has at most 2 lines.
C18_AtMostTwoLines ==
    chunkPc = "returned" =>
        \A c \in 1..Len(formattedChunks) : Len(DisplayLines(formattedChunks[c])) <= 2

\* a chunk that word-wrap would lay out in more than 2 lines was returned in 2
C18_Witness ==
    /\ chunkPc = "returned"
    /\ \E c \in 1..Len(formattedChunks) :
          /\ Len(NaturalLines(mergedChunks[c])) > 2
          /\ Len(DisplayLines(formattedChunks[c])) = 2

\* C19: for a chunk of at most 2 * max_chars_per_line characters whose words
\* are each at most max_chars_per_line long, every line of the display text
\* has at most max_chars_per_line characters.
C19_LinesWithinWidth ==
    chunkPc = "returned" =>
        \A c \in 1..Len(formattedChunks) :
            (/\ Len(mergedChunks[c]) <= 2 * argMaxCharsPerLine
             /\ \A w \in 1..Len(SplitWords(mergedChunks[c])) :
                   Len(SplitWords(mergedChunks[c])[w]) <= argMaxCharsPerLine)
            => \A r \in 1..Len(DisplayLines(formattedChunks[c])) :
                   Len(DisplayLines(formattedChunks[c])[r]) <= argMaxCharsPerLine

\* C20: when the caption, the polish or the narration stage is run a second
\* time on the same inputs with deterministic collaborators, the second run
\* adds no file, and when it has ended the files and their contents are
\* those the first run left.
C20_RerunLeavesSameFiles ==
    firstRun.stage # "none" =>
        /\ DOMAIN fs = DOMAIN firstRun.files
        /\ stagePc \in {"returned", "raised"} => fs = firstRun.files

\* the polish stage has returned a second time, for two or more slides, one
\* of them with the original text as fallback and one with a rewritten text
C20_Witness ==
    /\ firstRun.stage = "polish"
    /\ stagePc = "returned"
    /\ Len(items) >= 2
    /\ \E i \in Items : i \in rewriterFailed /\ wrote[i] # <<>>
    /\ \E i \in Items : i \notin rewriterFailed

\* a call of polish_transcripts has submitted its workers and has not ended
PolishWorkersLaunched ==
    stage = "polish" /\ stagePc \in {"collecting", "unwinding"}

\* the raw-transcript mapping has the stripped raw text of every input slide
MappingPopulated ==
    \A i \in 1..Len(transcriptPaths) :
        LET k == ExtractSlideNumber(transcriptPaths[i].name)
        IN /\ k \in DOMAIN allOriginal
           /\ allOriginal[k] = Strip(fs[transcriptPaths[i]])

\* C21: in polish_transcripts the raw-transcript mapping holds every input
\* slide as soon as the workers are submitted, and no step taken while the
\* workers are launched, by a worker or by anything else, changes the mapping.
C21_MappingLoadedThenFrozen ==
    [][/\ PolishWorkersLaunched' => MappingPopulated'
       /\ PolishWorkersLaunched => allOriginal' = allOriginal]_vars

\* two polish workers have written their files, one of them the fallback,
\* while another item of the mapping is still queued or running
C21_Witness ==
    /\ PolishWorkersLaunched
    /\ Cardinality(DOMAIN allOriginal) >= 3
    /\ \E i, j \in Items :
        /\ i # j
        /\ task[i] \in {"ok", "collected"}
        /\ task[j] \in {"ok", "collected"}
        /\ i \in rewriterFailed
    /\ Unfinished # {}

\* the number of words on the first line of a two-line display text
SplitPoint(display) == Len(SplitWords(DisplayLines(display)[1]))

\* range(max(1, mid_point - 3), min(len(all_words), mid_point + 4))
SplitWindow(n) ==
    LET midPoint == n \div 2
    IN {sp \in 1..(n - 1) : sp >= midPoint - 3 /\ sp < midPoint + 4}

\* abs(len(line1) - len(line2)) of the split of the words after sp words
LineDiff(allWords, sp) ==
    LET a == Len(JoinAll(SubSeq(allWords, 1, sp), <<" ">>))
        b == Len(JoinAll(SubSeq(allWords, sp + 1, Len(allWords)), <<" ">>))
    IN IF a >= b THEN a - b ELSE b - a

\* the split points of the window for which both lines fit the width
FittingSplits(allWords, maxCharsPerLine) ==
    {sp \in SplitWindow(Len(allWords)) :
        /\ Len(JoinAll(SubSeq(allWords, 1, sp), <<" ">>)) <= maxCharsPerLine
        /\ Len(JoinAll(SubSeq(allWords, sp + 1, Len(allWords)), <<" ">>))
              <= maxCharsPerLine}

\* display is the words split into two lines at a point of the window that is
\* within 3 words of the midpoint and, where some split of the window fits
\* the width, is a fitting split of least difference
IsBalancedSplit(allWords, display, maxCharsPerLine) ==
    LET n == Len(allWords)
        sp == SplitPoint(display)
    IN /\ Len(DisplayLines(display)) = 2
       /\ sp \in SplitWindow(n)
       /\ sp - (n \div 2) \in -3..3
       /\ DisplayLines(display)[1] = JoinAll(SubSeq(allWords, 1, sp), <<" ">>)
       /\ DisplayLines(display)[2] = JoinAll(SubSeq(allWords, sp + 1, n), <<" ">>)
       /\ FittingSplits(allWords, maxCharsPerLine) # {} =>
             /\ sp \in FittingSplits(allWords, maxCharsPerLine)
             /\ \A t \in FittingSplits(allWords, maxCharsPerLine) :
                   LineDiff(allWords, sp) <= LineDiff(allWords, t)

C23_ConstructionSucceeds ==
    mainPc \in {"raised", "exit1"} => failedIn \in {"", "Config", "TextToSpeechClient"}

\* C24: on the chunk list the greedy accumulation of
\* _split_text_into_subtitle_chunks produced, _merge_short_chunks (with the
\* same max_chunk_chars) returns the list unchanged.
C24_MergeChangesNothing ==
    chunkPc = "returned" => mergedChunks = initialChunks

\* the merge was handed several chunks, the two tries of the loop both
\* possible for a short chunk in the middle, and returned them as they were
C24_Witness ==
    /\ chunkPc = "returned"
    /\ Len(initialChunks) >= 3
    /\ \E c \in 2..(Len(initialChunks) - 1) : Len(initialChunks[c]) < MinChunkChars
    /\ mergedChunks = initialChunks

\* C25: with polishing enabled, every call of create_video_with_subtitles,
\* from run_full_pipeline or from create_video without arguments after the
\* run, gets as transcripts the list the audio was synthesized from, and
\* every audio file is the speech of the transcript at its position.
C25_SubtitlesFromNarratedTranscripts ==
    enablePolishing =>
        \A c \in 1..Len(videoCalls) :
            /\ videoCalls[c].transcript_paths = finalTranscriptPaths
            /\ \A i \in 1..Len(videoCalls[c].audio_paths) :
                  fs[videoCalls[c].audio_paths[i]]
                      = SynthesizeSpeech(Strip(fs[videoCalls[c].transcript_paths[i]]))

\* C26: when the caption or the narration stage raises to its caller because
\* one item's transform raised, every other submitted item has been started
\* and has run to its end, none was cancelled, and every item that succeeded
\* has written its artifact.
C26_NoItemCancelled ==
    (stage \in {"caption", "narration"} /\ stagePc = "raised") =>
        \A i \in Items :
            /\ task[i] \in {"ok", "collected", "err", "raised"}
            /\ task[i] \in {"ok", "collected"} =>
                  /\ OutPath(i) \in DOMAIN fs
                  /\ fs[OutPath(i)] = wrote[i]

\* with one worker thread the first of three items raised and the stage
\* raised only after the two items queued behind it had written their files
C26_Witness ==
    /\ stage \in {"caption", "narration"}
    /\ stagePc = "raised"
    /\ threadCount = 1
    /\ Len(items) = 3
    /\ raisedBy = 1
    /\ collected = <<>>
    /\ \A i \in {2, 3} : task[i] = "ok" /\ OutPath(i) \in DOMAIN fs

\* C27: every subtitle entry of every slide, not only the last of its slide,
\* starts at or after the start of its slide, ends at or after its own start
\* and ends at or before the end of the slide's audio.
C27_EntryWithinSlideAudio ==
    \A e \in 1..Len(srtEntries) :
        LET slideStart == slideStarts[entrySlide[e]]
            audioEnd == slideStart + audioDurations[entrySlide[e]]
        IN /\ slideStart <= srtEntries[e].start
           /\ srtEntries[e].start <= srtEntries[e].end
           /\ srtEntries[e].end <= audioEnd

\* an entry that is not the last of its slide was stretched towards 1.5
\* seconds and held to the end of the audio, on a slide that is followed by a
\* transition break and a further slide with entries
C27_Witness ==
    /\ videoPc = "returned"
    /\ transitionBreak > 0
    /\ \E e \in 1..(Len(srtEntries) - 1) :
          /\ entrySlide[e + 1] = entrySlide[e]
          /\ srtEntries[e].end = slideStarts[entrySlide[e]] + audioDurations[entrySlide[e]]
          /\ srtEntries[e].end - srtEntries[e].start < MinSubtitleTicks
          /\ srtEntries[e].start < srtEntries[e].end
          /\ \E f \in 1..Len(srtEntries) : entrySlide[f] > entrySlide[e]

====
